---- MODULE Spec2Model ----
(***************************************************************************)
(* Authentication and session-security layer of Scry-Intelligence:         *)
(* password-reset tokens, TOTP two-factor authentication with backup       *)
(* codes, the in-process fixed-window rate limiter and the double-submit   *)
(* CSRF guard.                                                             *)
(*                                                                         *)
(* Every exported async service function is a sequence of steps separated  *)
(* by its awaits (database select, KDF, database update).  A call is run   *)
(* by a process p; pc[p] is the await it is suspended at and call[p] holds *)
(* its arguments and locals.  Steps of different calls interleave freely,  *)
(* as requests do on the Node event loop.  The synchronous middleware      *)
(* (rateLimiter, csrfProtection) is one step per request.                  *)
(*                                                                         *)
(* Random values (randomBytes, authenticator.generateSecret) are modelled  *)
(* as fresh serial numbers: a drawn value differs from every value drawn   *)
(* before.  Time is a counter of ticks advanced by Tick.                   *)
(***************************************************************************)
EXTENDS Integers, Sequences, FiniteSets, TLC

(***************************************************************************)
(* Bounds of the model.                                                    *)
(***************************************************************************)
NUsers == 1
MaxTokens == 2
MaxTime == 3
HourTicks == 1
MaxSecrets == 1
MaxBatches == 2
\* The limiter's options max and windowMs (in ticks), and how many requests
\* beyond max a key sends in one window.
LimMax == 2
WindowTicks == 2
MaxOver == 2
\* How many CSRF tokens are generated, and how many requests reach a handler.
MaxCsrf == 2
MaxHandled == 2
\* How many users register.
MaxRegs == 1
\* How many batches of backup codes are drawn while accounts are created.
MaxEnrols == 1
\* How many secrets are generated beyond MaxSecrets on setting up again.
MaxReEnrols == 1
\* How many times the server is started again.
MaxBoots == 1
\* How many contact messages are stored.
NMessages == 2

(***************************************************************************)
(* Program constants.                                                      *)
(***************************************************************************)
RESET_TOKEN_EXPIRY_HOURS == 1
BACKUP_CODES_COUNT == 10

UserIds == 1..NUsers
\* Two requests in flight at a time.
Procs == {"p1", "p2"}
Tokens == 1..MaxTokens
\* Email i is the address of user i; email NUsers + 1 belongs to no user.
Emails == 1..(NUsers + 1)
\* The new password a reset submits.
Passwords == {1}
\* A user id that no row has.
NoSuchUser == NUsers + 1
Secrets == 1..MaxSecrets
Batches == 1..MaxBatches
\* Backup codes by serial number: batch g holds the codes
\* (g - 1) * BACKUP_CODES_COUNT + 1 .. g * BACKUP_CODES_COUNT.
Serials == 1..(MaxBatches * BACKUP_CODES_COUNT)
BatchOf(n) == ((n - 1) \div BACKUP_CODES_COUNT) + 1
\* The positions of a batch whose codes are submitted: the first and the last.
TriedIdx == {1, BACKUP_CODES_COUNT}

(***************************************************************************)
(* Nullable columns and optional results: Null, or Some(x).                *)
(***************************************************************************)
Null == <<>>
Some(x) == <<x>>
Val(o) == o[1]

VARIABLES
  now,        \* the wall clock (Date.now()), in ticks
  users,      \* the users table: id -> row
  pc,         \* per process: the step its call is suspended at
  call,       \* per process: the call's arguments and locals
  last,       \* the call that returned in the step just taken (idle if none did)
  nextToken,  \* serial number of the next reset token randomBytes(32) yields
  issued,     \* history: per reset token, the time it was generated
  okResets,   \* history: per reset token, how many resetPassword calls returned true
  nextSecret, \* serial number of the next authenticator.generateSecret()
  nextBatch,  \* serial number of the next batch generateBackupCodes() yields
  accepts,    \* history: per backup code, how often verify2FACode accepted it
              \* (0, 1, or 2 for twice or more)
  curBatch,   \* history: per user, the batch of the last enable not yet disabled (0: none)
  enables,    \* history: per user, how many verify2FAAndEnable calls succeeded
  hits,       \* the limiter's Map: key -> HitRecord (absent: Null)
  win,        \* history: per key, the fixed window its requests are counted in
  res,        \* what the middleware did with the request of the step just taken
  nextCsrf,   \* serial number of the next CSRF token randomBytes(32) yields
  jar,        \* the csrf-token cookie the browser holds (none: Null)
  handled,    \* how many requests were passed on by csrfProtection
  adminEnv,   \* process.env.ADMIN_USERNAME (unset: Null)
  boot,       \* ensureAdminUserFromEnv: the step it is at, and the row it found
  elevated,   \* history: the ids of the users the bootstrap created or promoted
  session,    \* the session of the browser: the user logged in, the pending
              \* 2FA marker, and the history of its login
  routed,     \* the request csrfProtection has just been given, as the router
              \* holds it: its route, its session's user and its parameters
  messages,   \* the messages table: id -> row
  researchAreas \* the research_areas table: the rows in order of creation

resetVars == <<nextToken, issued, okResets>>
twoFAVars == <<nextSecret, nextBatch, accepts, curBatch, enables>>
accountVars == <<adminEnv, boot, elevated, session>>
serviceVars == <<users, pc, call, last, resetVars, twoFAVars, accountVars>>
limiterVars == <<hits, win>>
csrfVars == <<nextCsrf, jar, handled>>
contentVars == <<messages, researchAreas>>
routeVars == <<routed, contentVars>>
webVars == <<limiterVars, csrfVars, res, routeVars>>
vars == <<now, serviceVars, webVars>>

(***************************************************************************)
(* hashPassword (server/auth.ts, not among the sources): a salted digest   *)
(* of the plaintext, never the plaintext itself.                           *)
(***************************************************************************)
HashPassword(pw) == <<"scrypt", pw>>

InitRow(u) ==
  [ username         |-> u,
    role             |-> "user",
    email            |-> u,
    password         |-> HashPassword(0),
    resetToken       |-> Null,
    resetTokenExpiry |-> Null,
    twoFactorSecret      |-> Null,
    twoFactorEnabled     |-> FALSE,
    twoFactorBackupCodes |-> Null ]

\* The codes a client submits: the TOTP code of a secret, a backup code (as
\* issued, in upper case, or typed in lower case), or anything else.
TotpOf(secret) == [kind |-> "totp", n |-> secret, upper |-> TRUE]
BackupCode(n, upper) == [kind |-> "backup", n |-> n, upper |-> upper]
Junk == [kind |-> "junk", n |-> 0, upper |-> TRUE]
\* A code of fewer than six characters.
Short == [kind |-> "short", n |-> 0, upper |-> TRUE]

IdleCall ==
  [ op    |-> "idle",
    uid   |-> 0,
    code  |-> Junk,
    list  |-> Null,     \* the parsed backup-code list of the selected row
    status |-> 0,       \* the HTTP status a route answered with
    email |-> 0,
    token |-> 0,
    pw    |-> 0,
    row   |-> Null,     \* the row a select returned (undefined: Null)
    new   |-> 0,        \* a freshly generated token
    exp   |-> 0,        \* the expiry computed for it
    ret   |-> Null,     \* the value returned
    late  |-> FALSE ]   \* history: the token had been redeemed when the call began

\* The keys requests are counted under (keyGenerator: the client's address).
Keys == {"k1", "k2"}
Methods == {"GET", "HEAD", "OPTIONS", "POST", "PUT", "PATCH", "DELETE"}

\* What a middleware reads of a request, and what it does with it: it answers
\* with a status, or calls next() (status 0: not answered here).
NoReq ==
  [method |-> "", cookie |-> Null, header |-> Null, key |-> "", skip |-> FALSE,
   body |-> Null]
NoRes ==
  [ by         |-> "none",   \* the middleware
    req        |-> NoReq,
    status     |-> 0,
    next       |-> FALSE,    \* next() was called
    headers    |-> {},       \* res.setHeader: <<name, value>> pairs
    retryAfter |-> Null,     \* the body's retryAfter
    csrfToken  |-> Null,     \* the body's csrfToken
    body       |-> Null,     \* the rest of the JSON body
    logged     |-> Null,     \* what the step wrote to the server's log
    setCookie  |-> Null ]    \* res.cookie("csrf-token", ...)

NoWindow == [start |-> -1, reqs |-> 0, prev |-> 0]

\* ensureAdminUserFromEnv has not run.
NotBooted == [pc |-> "start", existing |-> Null, runs |-> 0]

\* The session of a browser that has not logged in.  checked and verified are
\* history: the user whose password the last login checked, and the user
\* for whom a 2FA code was verified since.
NoSession ==
  [user |-> Null, pending2FAUserId |-> Null, checked |-> Null, verified |-> Null]

\* No request is being routed.
NoRoute ==
  [route |-> [method |-> "", path |-> ""],
   user |-> [authenticated |-> FALSE, role |-> ""],
   id |-> 0, valid |-> FALSE,
   via |-> <<>>]   \* history: the middleware that passed the request on

\* The messages table holds NMessages contact messages, none of them read.
InitMessages == [id \in 1..NMessages |-> [read |-> FALSE]]

\* Everything but the environment.
InitState ==
  /\ now = 0
  /\ hits = [k \in Keys |-> Null]
  /\ win = [k \in Keys |-> NoWindow]
  /\ res = NoRes
  /\ nextCsrf = 1
  /\ jar = Null
  /\ handled = 0
  /\ boot = NotBooted
  /\ elevated = {}
  /\ session = NoSession
  /\ routed = NoRoute
  /\ messages = InitMessages
  /\ researchAreas = <<>>
  /\ users = [u \in UserIds |-> InitRow(u)]
  /\ pc = [p \in Procs |-> "idle"]
  /\ call = [p \in Procs |-> IdleCall]
  /\ last = IdleCall
  /\ nextToken = 1
  /\ issued = [t \in Tokens |-> 0]
  /\ okResets = [t \in Tokens |-> 0]
  /\ nextSecret = 1
  /\ nextBatch = 1
  /\ accepts = [n \in Serials |-> 0]
  /\ curBatch = [u \in UserIds |-> 0]
  /\ enables = [u \in UserIds |-> 0]

\* No admin account is configured.
Init == InitState /\ adminEnv = Null

(***************************************************************************)
(* The clock.                                                              *)
(***************************************************************************)
Tick ==
  /\ now < MaxTime
  /\ now' = now + 1
  /\ last' = IdleCall
  /\ res' = NoRes
  /\ UNCHANGED <<users, pc, call, resetVars, twoFAVars, limiterVars, csrfVars, accountVars,
                 routeVars>>

(***************************************************************************)
(* db.select().from(users).where(eq(users.email, email)): the matching     *)
(* rows, each as the selected row with its id.                             *)
(***************************************************************************)
WithId(u) == [id |-> u, r |-> users[u]]
RowsByEmailOrAny(email) ==
  LET found == {WithId(u) : u \in {v \in UserIds : users[v].email = email}} IN
    IF found = {} THEN {WithId(u) : u \in UserIds} ELSE found
RowsByEmail(email) == {WithId(u) : u \in {v \in UserIds : users[v].email = email}}
RowsByResetToken(token) ==
  {WithId(u) : u \in {v \in UserIds : users[v].resetToken = Some(token)}}

\* const [user] = await ...: the first row, or undefined.
FirstOf(rows) == IF rows = {} THEN {Null} ELSE {Some(x) : x \in rows}

(***************************************************************************)
(* A call's first database select is taken when the call is made: a call   *)
(* that has begun and not yet read anything has had no effect and seen     *)
(* nothing, so it is the same as one that begins later.  From then on the  *)
(* call advances one await at a time.                                      *)
(***************************************************************************)
\* A process with no call in flight is free for a new one.
Free(p) == pc[p] = "idle"

\* The call of p goes on to its next await with locals c.
Set(p, c, label) ==
  /\ call' = [call EXCEPT ![p] = c]
  /\ pc' = [pc EXCEPT ![p] = label]
  /\ last' = IdleCall

\* The call of p returns value: its locals are gone; last shows, until the next
\* step, what it was called with and what it returned.
Return(p, c, value) ==
  /\ call' = [call EXCEPT ![p] = IdleCall]
  /\ pc' = [pc EXCEPT ![p] = "idle"]
  /\ last' = [c EXCEPT !.ret = value, !.row = Null, !.list = Null, !.new = 0, !.exp = 0]

(***************************************************************************)
(* createPasswordResetToken(email)                                         *)
(***************************************************************************)
ResetExpiry(t) == t + RESET_TOKEN_EXPIRY_HOURS * HourTicks

\* Lines 15-23: the select, the early return, the token and its expiry.
CreateSelect(p) ==
  /\ Free(p)
  /\ \E email \in Emails :
       LET c == [IdleCall EXCEPT !.op = "createPasswordResetToken", !.email = email] IN
         \E user \in FirstOf(RowsByEmail(email)) :
           IF user = Null
           THEN /\ Return(p, c, Null)
                /\ UNCHANGED <<nextToken, issued>>
           ELSE /\ nextToken <= MaxTokens
                /\ Set(p, [c EXCEPT !.row = Some([id |-> Val(user).id]),
                                    !.new = nextToken,
                                    !.exp = ResetExpiry(now)], "cUpdate")
                /\ nextToken' = nextToken + 1
                /\ issued' = [issued EXCEPT ![nextToken] = now]
  /\ UNCHANGED <<now, users, okResets, twoFAVars, webVars, accountVars>>

\* Lines 26-31: the single-row update that stores token and expiry.
StoreTokenOnly(row, token, expiry) == [row EXCEPT !.resetToken = Some(token)]
StoreToken(row, token, expiry) ==
  [row EXCEPT !.resetToken = Some(token), !.resetTokenExpiry = Some(expiry)]

CreateUpdate(p) ==
  /\ pc[p] = "cUpdate"
  /\ users' = [users EXCEPT ![Val(call[p].row).id] =
                 StoreToken(@, call[p].new, call[p].exp)]
  /\ Return(p, call[p], Some(call[p].new))
  /\ UNCHANGED <<now, resetVars, twoFAVars, webVars, accountVars>>

(***************************************************************************)
(* validateResetToken(token), also the first part of resetPassword         *)
(***************************************************************************)
\* A caller holds only tokens that createPasswordResetToken has returned, or a
\* made-up one (0).
KnownTokens ==
  {t \in 0..(nextToken - 1) : \A q \in Procs : ~(pc[q] = "cUpdate" /\ call[q].new = t)}
Redeemed(t) == t \in Tokens /\ okResets[t] > 0

\* Lines 41-43: the select by token; of the row, the id and the expiry are read.
ValidateSelect(p, c) ==
  \E user \in FirstOf(RowsByResetToken(c.token)) :
    Set(p, [c EXCEPT !.late = Redeemed(c.token),
                     !.row = IF user = Null THEN Null
                             ELSE Some([id |-> Val(user).id,
                                        resetTokenExpiry |-> Val(user).r.resetTokenExpiry])],
        "vCheck")

StartValidate(p) ==
  /\ Free(p)
  /\ \E token \in KnownTokens :
       ValidateSelect(p, [IdleCall EXCEPT !.op = "validateResetToken", !.token = token])
  /\ UNCHANGED <<now, users, resetVars, twoFAVars, webVars, accountVars>>

StartReset(p) ==
  /\ Free(p)
  /\ \E token \in KnownTokens, pw \in Passwords :
       ValidateSelect(p, [IdleCall EXCEPT !.op = "resetPassword", !.token = token,
                                          !.pw = pw])
  /\ UNCHANGED <<now, users, resetVars, twoFAVars, webVars, accountVars>>

\* Line 50: new Date() > user.resetTokenExpiry
ExpiredAtOrAfter(t, expiry) == t >= expiry
Expired(t, expiry) == t > expiry

\* Lines 45-54 on the selected row, at time t: the user id, or null.
ValidateResult(user, t) ==
  IF user = Null \/ Val(user).resetTokenExpiry = Null
  THEN Null
  ELSE IF Expired(t, Val(Val(user).resetTokenExpiry))
       THEN Null
       ELSE Some(Val(user).id)

\* Lines 41-54: validateResetToken selects and compares; it updates no row,
\* whatever the row it selected.
RowsAfterValidateClearsStale(rows, user) ==
  IF user = Null THEN rows
  ELSE [rows EXCEPT ![Val(user).id] =
          [@ EXCEPT !.resetToken = Null, !.resetTokenExpiry = Null]]
RowsAfterValidate(rows, user) == rows

ValidateCheck(p) ==
  /\ pc[p] = "vCheck"
  /\ users' = RowsAfterValidate(users, call[p].row)
  /\ LET userId == ValidateResult(call[p].row, now) IN
       IF call[p].op = "validateResetToken"
       THEN Return(p, call[p], userId)
       ELSE \* resetPassword, lines 62-66
            IF userId = Null
            THEN Return(p, call[p], FALSE)
            ELSE \* line 69: await hashPassword(newPassword), then the update
                 Set(p, call[p], "rUpdate")
  /\ UNCHANGED <<now, resetVars, twoFAVars, webVars, accountVars>>

\* Lines 71-77: the single-row update of digest, token and expiry.
ClearTokenKeepsToken(row, digest) == [row EXCEPT !.password = digest]
ClearToken(row, digest) ==
  [row EXCEPT !.password = digest, !.resetToken = Null, !.resetTokenExpiry = Null]

ResetUpdate(p) ==
  /\ pc[p] = "rUpdate"
  /\ users' = [users EXCEPT ![Val(call[p].row).id] =
                 ClearToken(@, HashPassword(call[p].pw))]
  /\ okResets' = [okResets EXCEPT ![call[p].token] = @ + 1]
  /\ Return(p, call[p], TRUE)
  /\ UNCHANGED <<now, nextToken, issued, twoFAVars, webVars, accountVars>>

ResetStep(p) ==
  \/ CreateSelect(p)
  \/ CreateUpdate(p)
  \/ StartValidate(p)
  \/ StartReset(p)
  \/ ValidateCheck(p)
  \/ ResetUpdate(p)

NextReset == Tick \/ \E p \in Procs : ResetStep(p)

SpecReset == Init /\ [][NextReset]_vars

(***************************************************************************)
(* Two-factor service.                                                     *)
(*                                                                         *)
(* authenticator.verify({token, secret}): the token is the TOTP code of    *)
(* the secret.  The code's dependence on the 30-second time step is left   *)
(* out: the code of a secret verifies against that secret, and against no  *)
(* other.                                                                  *)
(***************************************************************************)
TotpVerifyAnyCode(code, secret) == TRUE
TotpVerify(code, secret) == code = TotpOf(secret)

\* scryptAsync(code, salt, 64): a digest of code and salt.
Scrypt(code, salt) == <<"scrypt", code, salt>>

\* Lines 132-140: BACKUP_CODES_COUNT random codes, in upper case.
GenerateBackupCodes(g) ==
  [i \in 1..BACKUP_CODES_COUNT |-> BackupCode((g - 1) * BACKUP_CODES_COUNT + i, TRUE)]

\* Lines 142-150: each code hashed with a salt of its own (the randomBytes(16)
\* drawn for code n is salt n), stored as "<digest>.<salt>".
HashBackupCodes(codes) ==
  [i \in 1..Len(codes) |-> [hashed |-> Scrypt(codes[i], codes[i].n), salt |-> codes[i].n]]

\* code.toUpperCase()
ToUpperCase(code) == [code EXCEPT !.upper = TRUE]

\* Lines 161-166: the first index whose entry matches the supplied code, 0 if none.
Matches(entry, code) == Scrypt(ToUpperCase(code), entry.salt) = entry.hashed
FirstMatch(hashedCodes, code) ==
  LET hit == {i \in 1..Len(hashedCodes) : Matches(hashedCodes[i], code)} IN
    IF hit = {} THEN 0 ELSE CHOOSE i \in hit : \A j \in hit : i <= j

\* Line 168: hashedCodes.splice(i, 1)
SpliceKeepsAll(hashedCodes, i) == hashedCodes
Splice(hashedCodes, i) ==
  SubSeq(hashedCodes, 1, i - 1) \o SubSeq(hashedCodes, i + 1, Len(hashedCodes))

\* db.select().from(users).where(eq(users.id, userId)): the row, or undefined.
UserById(uid) == IF uid \in UserIds THEN Some(WithId(uid)) ELSE Null

\* The codes a caller can submit: the TOTP code of a secret generate2FASecret
\* has returned, a code of a batch verify2FAAndEnable has returned (as issued,
\* or the first of a batch typed in lower case), or junk.
KnownSecrets ==
  {s \in 1..(nextSecret - 1) : \A q \in Procs : ~(pc[q] = "gUpdate" /\ call[q].new = s)}
KnownSerials ==
  {n \in Serials : BatchOf(n) < nextBatch /\ ((n - 1) % BACKUP_CODES_COUNT) + 1 \in TriedIdx}
CodeInputs ==
  {TotpOf(s) : s \in KnownSecrets}
    \cup {BackupCode(n, TRUE) : n \in KnownSerials}
    \cup {BackupCode(n, FALSE) : n \in {m \in KnownSerials : m % BACKUP_CODES_COUNT = 1}}
    \cup {Junk}

\* The codes as issued: the TOTP codes and the backup codes in upper case.
IssuedCodes ==
  {TotpOf(s) : s \in KnownSecrets} \cup {BackupCode(n, TRUE) : n \in KnownSerials}

\* The inputs of a call: any user id and any code, or only the ids of
\* existing users and the codes as issued.
Uids(any) == IF any THEN UserIds \cup {NoSuchUser} ELSE UserIds
Codes(any) == IF any THEN CodeInputs ELSE IssuedCodes

InFlight(op) == Cardinality({q \in Procs : call[q].op = op})

Begin(op, uid, code) == [IdleCall EXCEPT !.op = op, !.uid = uid, !.code = code]

(***************************************************************************)
(* generate2FASecret(userId)                                               *)
(***************************************************************************)
\* Lines 22-29: the select, the throw, the new secret.
GenerateSelectUpTo(p, any, limit) ==
  /\ Free(p)
  /\ \E uid \in Uids(any) :
       LET c == Begin("generate2FASecret", uid, Junk) IN
         IF UserById(uid) = Null
         THEN /\ Return(p, c, "Error: User not found")
              /\ UNCHANGED nextSecret
         ELSE /\ nextSecret <= limit
              /\ Set(p, [c EXCEPT !.new = nextSecret], "gUpdate")
              /\ nextSecret' = nextSecret + 1
  /\ UNCHANGED <<now, users, resetVars, nextBatch, accepts, curBatch, enables, webVars, accountVars>>

\* At most MaxSecrets secrets are generated.
GenerateSelect(p, any) == GenerateSelectUpTo(p, any, MaxSecrets)

\* Lines 32-34: the update stores the secret and nothing else.
SetSecretAndEnable(row, secret) ==
  [row EXCEPT !.twoFactorSecret = Some(secret), !.twoFactorEnabled = TRUE]
SetSecret(row, secret) == [row EXCEPT !.twoFactorSecret = Some(secret)]

GenerateUpdate(p) ==
  /\ pc[p] = "gUpdate"
  /\ users' = [users EXCEPT ![call[p].uid] = SetSecret(@, call[p].new)]
  /\ Return(p, call[p], Some(call[p].new))
  /\ UNCHANGED <<now, resetVars, twoFAVars, webVars, accountVars>>

(***************************************************************************)
(* verify2FAAndEnable(userId, code)                                        *)
(***************************************************************************)
\* Lines 51-65: the select and the verification of the code.
EnableSelect(p, any) ==
  /\ Free(p)
  /\ \E uid \in Uids(any), code \in Codes(any) :
       LET c == Begin("verify2FAAndEnable", uid, code)
           user == UserById(uid)
       IN IF user = Null \/ Val(user).r.twoFactorSecret = Null
          THEN Return(p, c, [enabled |-> FALSE])
          ELSE IF ~TotpVerify(code, Val(Val(user).r.twoFactorSecret))
               THEN Return(p, c, [enabled |-> FALSE])
               ELSE /\ nextBatch + InFlight("verify2FAAndEnable") <= MaxBatches
                    /\ Set(p, c, "eUpdate")
  /\ UNCHANGED <<now, users, resetVars, twoFAVars, webVars, accountVars>>

\* Lines 72-77: the update sets the flag and the hashed backup codes.
EnableRow(row, hashedBackupCodes) ==
  [row EXCEPT !.twoFactorEnabled = TRUE, !.twoFactorBackupCodes = Some(hashedBackupCodes)]

\* Lines 68-79.
EnableUpdate(p) ==
  /\ pc[p] = "eUpdate"
  /\ users' = [users EXCEPT ![call[p].uid] =
                 EnableRow(@, HashBackupCodes(GenerateBackupCodes(nextBatch)))]
  /\ nextBatch' = nextBatch + 1
  /\ curBatch' = [curBatch EXCEPT ![call[p].uid] = nextBatch]
  /\ enables' = [enables EXCEPT ![call[p].uid] = @ + 1]
  /\ Return(p, call[p], [enabled |-> TRUE, backupCodes |-> nextBatch])
  /\ UNCHANGED <<now, resetVars, nextSecret, accepts, webVars, accountVars>>

(***************************************************************************)
(* verify2FACode(userId, code), called at login and, before disable2FA,    *)
(* by POST /api/auth/2fa/disable.                                          *)
(***************************************************************************)
\* verify2FACode returns isValid: to its caller (the verify route among them), or into the disable route
\* (part_003 lines 169-175), which answers 400 or goes on to disable2FA.
VerifyReturnDisablesAnyway(p, c, isValid) ==
  IF c.op # "POST /api/auth/2fa/disable"
  THEN Return(p, c, isValid)
  ELSE Set(p, [c EXCEPT !.ret = TRUE, !.list = Null], "dUpdate")
VerifyReturn(p, c, isValid) ==
  IF c.op # "POST /api/auth/2fa/disable"
  THEN Return(p, c, isValid)
  ELSE IF isValid
       THEN Set(p, [c EXCEPT !.ret = TRUE, !.list = Null], "dUpdate")
       ELSE Return(p, [c EXCEPT !.status = 400], FALSE)

\* Line 88: !user || !user.twoFactorSecret || !user.twoFactorEnabled
NotEnrolledIgnoresFlag(user) == user = Null \/ Val(user).r.twoFactorSecret = Null
NotEnrolled(user) ==
  \/ user = Null
  \/ Val(user).r.twoFactorSecret = Null
  \/ ~Val(user).r.twoFactorEnabled

\* Lines 86-103: the select, the guards, the TOTP check.
VerifySelect(p, c) ==
  LET user == UserById(c.uid) IN
    IF NotEnrolled(user)
    THEN VerifyReturn(p, c, FALSE)
    ELSE IF TotpVerify(c.code, Val(Val(user).r.twoFactorSecret))
         THEN VerifyReturn(p, c, TRUE)
         ELSE Set(p, c, "bSelect")

StartVerify(p, any) ==
  /\ Free(p)
  /\ \E uid \in Uids(any), code \in Codes(any) :
       VerifySelect(p, Begin("verify2FACode", uid, code))
  /\ UNCHANGED <<now, users, resetVars, twoFAVars, webVars, accountVars>>

\* part_003 lines 37-39, verify2FASchema: code: z.string().min(6).
Verify2FASchemaOk(code) == code.kind # "short"

\* The codes a route is sent: those above and, with any input, a short one.
RouteCodes(any) == IF any THEN CodeInputs \cup {Short} ELSE IssuedCodes

\* part_003 lines 164-169 and 179-181.  The route runs for the authenticated
\* user (req.user.id); a body that fails the schema is answered 400 before any
\* service call.
StartDisableRoute(p, any) ==
  /\ Free(p)
  /\ \E uid \in UserIds, code \in RouteCodes(any) :
       LET c == Begin("POST /api/auth/2fa/disable", uid, code) IN
         IF Verify2FASchemaOk(code)
         THEN VerifySelect(p, c)
         ELSE Return(p, [c EXCEPT !.status = 400], FALSE)
  /\ UNCHANGED <<now, users, resetVars, twoFAVars, webVars, accountVars>>

\* verifyAndConsumeBackupCode, lines 153-159: the select and JSON.parse.
BackupSelect(p) ==
  /\ pc[p] = "bSelect"
  /\ LET user == UserById(call[p].uid) IN
       IF user = Null \/ Val(user).r.twoFactorBackupCodes = Null
       THEN VerifyReturn(p, call[p], FALSE)
       ELSE Set(p, [call[p] EXCEPT !.list = Val(user).r.twoFactorBackupCodes], "bScan")
  /\ UNCHANGED <<now, users, resetVars, twoFAVars, webVars, accountVars>>

\* Lines 169-171: the update writes the list read at the select, less the match.
ConsumeRow(row, hashedCodes) == [row EXCEPT !.twoFactorBackupCodes = Some(hashedCodes)]

\* Lines 161-176: the loop over the list read at the select; on a match the
\* update and return true.
BackupScan(p) ==
  /\ pc[p] = "bScan"
  /\ LET hashedCodes == Val(call[p].list)
         i == FirstMatch(hashedCodes, call[p].code)
     IN IF i = 0
        THEN /\ VerifyReturn(p, call[p], FALSE)
             /\ UNCHANGED <<users, accepts>>
        ELSE /\ users' = [users EXCEPT ![call[p].uid] =
                            ConsumeRow(@, Splice(hashedCodes, i))]
             /\ accepts' = [accepts EXCEPT ![hashedCodes[i].salt] = IF @ = 0 THEN 1 ELSE 2]
             /\ VerifyReturn(p, call[p], TRUE)
  /\ UNCHANGED <<now, resetVars, nextSecret, nextBatch, curBatch, enables, webVars, accountVars>>

(***************************************************************************)
(* disable2FA(userId)                                                      *)
(***************************************************************************)
\* Lines 110-116.
DisableRow(row) ==
  [row EXCEPT !.twoFactorEnabled = FALSE, !.twoFactorSecret = Null,
              !.twoFactorBackupCodes = Null]

DisableUpdate(p) ==
  /\ pc[p] = "dUpdate"
  /\ users' = [users EXCEPT ![call[p].uid] = DisableRow(@)]
  /\ curBatch' = [curBatch EXCEPT ![call[p].uid] = 0]
  /\ Return(p, [call[p] EXCEPT !.status = 200], TRUE)
  /\ UNCHANGED <<now, resetVars, nextSecret, nextBatch, accepts, enables, webVars, accountVars>>

(***************************************************************************)
(* is2FAEnabled(userId)                                                    *)
(***************************************************************************)
\* Lines 123-127: user?.enabled === true
IsEnabledSelect(p, any) ==
  /\ Free(p)
  /\ \E uid \in Uids(any) :
       LET user == UserById(uid) IN
         Return(p, Begin("is2FAEnabled", uid, Junk),
                user # Null /\ Val(user).r.twoFactorEnabled)
  /\ UNCHANGED <<now, users, resetVars, twoFAVars, webVars, accountVars>>

\* A step of process p; its calls are made with any input, or with issued
\* input only.
TwoFAStep(p, any) ==
  \/ GenerateSelect(p, any)
  \/ GenerateUpdate(p)
  \/ EnableSelect(p, any)
  \/ EnableUpdate(p)
  \/ StartVerify(p, any)
  \/ StartDisableRoute(p, any)
  \/ BackupSelect(p)
  \/ BackupScan(p)
  \/ DisableUpdate(p)
  \/ IsEnabledSelect(p, any)

\* One call at a time, each returning before the next begins; for any user id
\* and with any code.
Next2FASeq == TwoFAStep("p1", TRUE)
Spec2FASeq == Init /\ [][Next2FASeq]_vars

\* One call at a time, with MaxReEnrols further secrets for the users who set
\* up two-factor authentication again.
NextEnrol ==
  \/ TwoFAStep("p1", TRUE)
  \/ GenerateSelectUpTo("p1", TRUE, MaxSecrets + MaxReEnrols)
SpecEnrol == Init /\ [][NextEnrol]_vars

\* Two requests at a time, interleaved at their awaits: the requests of
\* existing users who submit the codes they were issued.
Next2FA == \E p \in Procs : TwoFAStep(p, FALSE)
Spec2FA == Init /\ [][Next2FA]_vars

(***************************************************************************)
(* The rate limiter: createRateLimiter(options) and its rateLimiter         *)
(* middleware.  The three limiters (authLimiter, contactLimiter,           *)
(* apiLimiter) are instances that differ in their options only, each with  *)
(* a Map of its own; the instance modelled has max = LimMax and            *)
(* windowMs = WindowTicks, and the standard headers switched on as in all  *)
(* three.                                                                  *)
(***************************************************************************)
Options ==
  [windowMs |-> WindowTicks, max |-> LimMax, standardHeaders |-> TRUE,
   legacyHeaders |-> FALSE]

\* Lines 31-35: cleanup(key, record, now)
Cleanup(h, key, record, t) ==
  IF record.expiresAt <= t THEN [h EXCEPT ![key] = Null] ELSE h

\* Line 44: no record, or the record's window is over.
WindowOverStrict(record, t) == record = Null \/ Val(record).expiresAt < t
WindowOver(record, t) == record = Null \/ Val(record).expiresAt <= t

\* Line 51: record.count >= max
AtLimitOffByOne(count, max) == count > max
AtLimit(count, max) == count >= max

\* Math.max(a, b)
MathMax(a, b) == IF a >= b THEN a ELSE b

\* Lines 54-58 and 72-76, and lines 60-64 and 78-81.
StandardHeaders(remaining, expiresAt) ==
  IF Options.standardHeaders
  THEN {<<"RateLimit-Limit", Options.max>>, <<"RateLimit-Remaining", remaining>>,
        <<"RateLimit-Reset", expiresAt>>}
  ELSE {}
LegacyHeaders(remaining) ==
  IF Options.legacyHeaders
  THEN {<<"X-RateLimit-Limit", Options.max>>, <<"X-RateLimit-Remaining", remaining>>}
  ELSE {}

\* Lines 69-70: record.count += 1; hits.set(key, record), at time t.
CountHitSliding(record, t) ==
  [record EXCEPT !.count = @ + 1, !.expiresAt = t + Options.windowMs]
CountHit(record, t) == [record EXCEPT !.count = @ + 1]

\* History: the fixed window of a key.  A non-skipped request that comes when
\* the key has no window, or at or after the end of its window, begins a new
\* window; reqs counts the window's requests, prev those of the window before.
Counted(w, t) ==
  IF w.start < 0 \/ t >= w.start + Options.windowMs
  THEN [start |-> t, reqs |-> 1, prev |-> w.reqs]
  ELSE [w EXCEPT !.reqs = @ + 1]

\* Lines 37-84: one request with key keyGenerator(req) = key and skip(req) = skip.
RateLimiter(key, skip) ==
  LET req == [NoReq EXCEPT !.key = key, !.skip = skip]
      passed == [NoRes EXCEPT !.by = "rateLimiter", !.req = req, !.next = TRUE]
      record == hits[key]
  IN
  /\ IF skip
     THEN /\ res' = passed
          /\ UNCHANGED <<hits, win>>
     ELSE /\ Counted(win[key], now).reqs <= Options.max + MaxOver
          /\ win' = [win EXCEPT ![key] = Counted(@, now)]
          /\ IF WindowOver(record, now)
             THEN /\ hits' = [hits EXCEPT ![key] =
                                Some([count |-> 1, expiresAt |-> now + Options.windowMs])]
                  /\ res' = passed
             ELSE LET r == Val(record)
                      h == Cleanup(hits, key, r, now)
                  IN IF AtLimit(r.count, Options.max)
                     THEN /\ hits' = h
                          /\ res' = [NoRes EXCEPT
                                       !.by = "rateLimiter", !.req = req,
                                       !.status = 429,
                                       !.headers =
                                          StandardHeaders(0, r.expiresAt) \cup
                                          LegacyHeaders(0) \cup
                                          (IF Options.legacyHeaders
                                           THEN {<<"Retry-After", r.expiresAt - now>>}
                                           ELSE {}),
                                       !.retryAfter = Some(r.expiresAt - now)]
                     ELSE LET counted == CountHit(r, now)
                              remaining == MathMax(Options.max - counted.count, 0)
                          IN /\ hits' = [h EXCEPT ![key] = Some(counted)]
                             /\ res' = [passed EXCEPT
                                          !.headers =
                                             StandardHeaders(remaining, r.expiresAt) \cup
                                             LegacyHeaders(remaining)]
  /\ UNCHANGED <<now, serviceVars, csrfVars, contentVars>>

\* A request to a route behind the limiter.
Request == \E key \in Keys, skip \in BOOLEAN : RateLimiter(key, skip) /\ routed' = NoRoute

NextLimiter == Tick \/ Request

SpecLimiter == Init /\ [][NextLimiter]_vars

(***************************************************************************)
(* The CSRF guard: csrfProtection.                                         *)
(*                                                                         *)
(* Token values are numbers: 0 is the empty string, n > 0 the n-th token   *)
(* randomBytes(32) has yielded.  A request carries, as cookie and as       *)
(* header, nothing, the empty string, or a token generated before: the     *)
(* sender cannot guess one that is yet to be generated.                    *)
(***************************************************************************)
SafeMethods == {"GET", "HEAD", "OPTIONS"}

\* !value for a string | undefined: undefined, or the empty string.
Falsy(value) == value = Null \/ Val(value) = 0

\* Line 199: !headerToken || headerToken !== token
HeaderRejectedIfPresent(headerToken, token) ==
  ~Falsy(headerToken) /\ Val(headerToken) # token
HeaderRejected(headerToken, token) ==
  Falsy(headerToken) \/ Val(headerToken) # token

\* The values a request can carry in cookie or header.
Carried == {Null} \cup {Some(v) : v \in 0..(nextCsrf - 1)}

\* The browser keeps the cookie a response sets.
Stored(cookieJar, setCookie) == IF setCookie = Null THEN cookieJar ELSE setCookie

\* Lines 173-207: one request with req.method = method,
\* req.cookies["csrf-token"] = cookie and req.headers["x-csrf-token"] = header.
CsrfProtection(method, cookie, header) ==
  LET req == [NoReq EXCEPT !.method = method, !.cookie = cookie, !.header = header]
      generated == Falsy(cookie)
      token == IF generated THEN nextCsrf ELSE Val(cookie)
      setCookie == IF generated THEN Some(token) ELSE Null
      answer == [NoRes EXCEPT !.by = "csrfProtection", !.req = req,
                              !.setCookie = setCookie]
  IN
  /\ generated => nextCsrf <= MaxCsrf
  /\ nextCsrf' = IF generated THEN nextCsrf + 1 ELSE nextCsrf
  /\ jar' = Stored(jar, setCookie)
  /\ IF method \in SafeMethods \/ ~HeaderRejected(header, token)
     THEN /\ handled < MaxHandled
          /\ handled' = handled + 1
          /\ res' = [answer EXCEPT !.next = TRUE]
     ELSE /\ handled' = handled
          /\ res' = [answer EXCEPT !.status = 403,
                                   !.body = Some([error |-> "CSRF token validation failed"])]
  /\ UNCHANGED <<now, serviceVars, limiterVars, contentVars>>

\* registerRoutes (part_007 lines 33-36) mounts GET /api/csrf-token before
\* csrfProtection, so that no middleware has set req.csrfToken when
\* csrfTokenEndpoint runs: req.csrfToken is undefined.
CsrfTokenOfRequest == Null

\* Lines 213-227: GET /api/csrf-token with req.cookies["csrf-token"] = cookie
\* and req.csrfToken = csrfTokenFn (a function returning Val(csrfTokenFn), or
\* undefined).
CsrfTokenEndpoint(csrfTokenFn, cookie) ==
  LET req == [NoReq EXCEPT !.method = "GET", !.cookie = cookie]
      generated == Falsy(csrfTokenFn)
      token == IF generated THEN nextCsrf ELSE Val(csrfTokenFn)
      setCookie == IF Falsy(cookie) THEN Some(token) ELSE Null
  IN
  /\ generated => nextCsrf <= MaxCsrf
  /\ nextCsrf' = IF generated THEN nextCsrf + 1 ELSE nextCsrf
  /\ jar' = Stored(jar, setCookie)
  /\ res' = [NoRes EXCEPT !.by = "csrfTokenEndpoint", !.req = req, !.status = 200,
                          !.csrfToken = Some(token), !.setCookie = setCookie]
  /\ UNCHANGED <<now, handled, serviceVars, limiterVars, routeVars>>

GetCsrfToken == \E cookie \in Carried : CsrfTokenEndpoint(CsrfTokenOfRequest, cookie)

\* A request to any route under /api other than those modelled below.
Guarded ==
  \E method \in Methods, cookie \in Carried, header \in Carried :
    CsrfProtection(method, cookie, header) /\ routed' = NoRoute

NextCsrf == Guarded \/ GetCsrfToken

SpecCsrf == Init /\ [][NextCsrf]_vars

(***************************************************************************)
(* Accounts: registration and the admin bootstrap.                         *)
(*                                                                         *)
(* User i of the initial table has username i.  A user who registers gives *)
(* a username and no email (the column is nullable: email 0), and gets the *)
(* next id.                                                                *)
(***************************************************************************)
Usernames == 1..(NUsers + MaxRegs)

\* The body of POST /api/register: the fields of the form and, possibly, a
\* role the client added.
RegisterBody(username, role) ==
  [username |-> username, password |-> 1, name |-> Null, email |-> Null, role |-> role]

\* insertUserSchema (part_008 lines 49-54): the schema picks username,
\* password, name and email; parsing drops every other key of the body.
InsertUserSchemaKeepsRole(body) == body
InsertUserSchema(body) == [body EXCEPT !.role = Null]

\* storage.getUserByUsername: the row with the username, or undefined.
GetUserByUsername(username) ==
  LET ids == {u \in DOMAIN users : users[u].username = username} IN
    IF ids = {} THEN Null ELSE Some(WithId(CHOOSE u \in ids : TRUE))

\* db.insert(users).values(values): the inserted row; a column that values
\* does not set takes its default (role "user", everything else null).
InsertedRow(values) ==
  [ username         |-> values.username,
    role             |-> IF values.role = Null THEN "user" ELSE Val(values.role),
    email            |-> 0,
    password         |-> values.password,
    resetToken       |-> Null,
    resetTokenExpiry |-> Null,
    twoFactorSecret      |-> Null,
    twoFactorEnabled     |-> FALSE,
    twoFactorBackupCodes |-> Null ]

\* POST /api/register.  The route is set up by setupAuth (server/auth.ts):
\* it validates the body with insertUserSchema, refuses a username that is
\* taken, and stores the user with the hashed password by storage.createUser.
Register(username, role) ==
  LET body == RegisterBody(username, role)
      req == [NoReq EXCEPT !.method = "POST", !.body = Some(body)]
      values == InsertUserSchema(body)
      answer == [NoRes EXCEPT !.by = "POST /api/register", !.req = req]
  IN
  /\ Len(users) < NUsers + MaxRegs
  /\ IF GetUserByUsername(username) # Null
     THEN /\ res' = [answer EXCEPT !.status = 400]
          /\ UNCHANGED users
     ELSE LET row == InsertedRow([values EXCEPT !.password = HashPassword(@)]) IN
          /\ users' = Append(users, row)
          /\ res' = [answer EXCEPT !.status = 201, !.body = Some([role |-> row.role])]
  /\ UNCHANGED <<now, pc, call, last, resetVars, twoFAVars, accountVars,
                 limiterVars, csrfVars, routeVars>>

Registration ==
  \E username \in Usernames, role \in {Null, Some("user"), Some("admin")} :
    Register(username, role)

\* ensureAdminUserFromEnv, lines 23-40: nothing to do without the variables;
\* otherwise the select by username.
BootSelect ==
  /\ boot.pc = "start"
  /\ boot' = IF adminEnv = Null
             THEN [boot EXCEPT !.pc = "done"]
             ELSE [boot EXCEPT !.pc = "write",
                               !.existing = GetUserByUsername(Val(adminEnv))]
  /\ UNCHANGED <<now, users, pc, call, last, resetVars, twoFAVars, adminEnv, elevated,
                 session, webVars>>

\* Lines 43-46: the update sets the role and nothing else.
PromoteWithPassword(row) == [row EXCEPT !.role = "admin", !.password = HashPassword(1)]
Promote(row) == [row EXCEPT !.role = "admin"]

\* Lines 41-60: promote the row found, or insert the admin; the insert fails
\* on the unique username if the name was taken since the select.
BootWrite ==
  /\ boot.pc = "write"
  /\ boot' = [boot EXCEPT
               !.pc = IF boot.existing = Null /\ GetUserByUsername(Val(adminEnv)) # Null
                      THEN "failed" ELSE "done",
               !.existing = Null]
  /\ IF boot.existing # Null
     THEN LET id == Val(boot.existing).id IN
            IF Val(boot.existing).r.role # "admin"
            THEN /\ users' = [users EXCEPT ![id] = Promote(@)]
                 /\ elevated' = elevated \cup {id}
            ELSE UNCHANGED <<users, elevated>>
     ELSE IF GetUserByUsername(Val(adminEnv)) # Null
          THEN UNCHANGED <<users, elevated>>
          ELSE /\ users' = Append(users,
                              InsertedRow([RegisterBody(Val(adminEnv), Some("admin"))
                                             EXCEPT !.password = HashPassword(@)]))
               /\ elevated' = elevated \cup {Len(users) + 1}
  /\ UNCHANGED <<now, pc, call, last, resetVars, twoFAVars, adminEnv, session, webVars>>

\* The server starts again: bootstrap() runs once more.
BootAgain ==
  /\ boot.pc \in {"done", "failed"}
  /\ boot.runs < MaxBoots
  /\ boot' = [pc |-> "start", existing |-> Null, runs |-> boot.runs + 1]
  /\ UNCHANGED <<now, users, pc, call, last, resetVars, twoFAVars, adminEnv, elevated,
                 session, webVars>>

\* The admin account the environment names: none, or any username.
InitAccounts ==
  InitState /\ adminEnv \in {Null} \cup {Some(n) : n \in Usernames}

\* Registration and the bootstrap, along with the password-reset and
\* two-factor calls of the initial users, one call at a time; the users
\* draw at most MaxEnrols batches of backup codes.
NextAccounts ==
  \/ Registration
  \/ BootSelect
  \/ BootWrite
  \/ ResetStep("p1")
  \/ TwoFAStep("p1", FALSE) /\ nextBatch' <= MaxEnrols + 1

SpecAccounts == InitAccounts /\ [][NextAccounts]_vars

\* The server is started and restarted while users register and reset their
\* passwords.
NextBoot ==
  \/ BootSelect
  \/ BootWrite
  \/ BootAgain
  \/ Registration
  \/ ResetStep("p1")

SpecBoot == InitAccounts /\ [][NextBoot]_vars

(***************************************************************************)
(* The admin routes (part_007 lines 98-133).  They are mounted under /api  *)
(* after app.use("/api", csrfProtection) (line 36), so that a request to   *)
(* one of them is first given to csrfProtection; when that calls next(),   *)
(* the router gives it to isAdmin and then to the route's handler.  The    *)
(* middleware of one request runs without interruption: the step after     *)
(* csrfProtection's is the route's.                                        *)
(***************************************************************************)
AdminRoutes ==
  { [method |-> "GET",   path |-> "/api/admin/messages"],
    [method |-> "PATCH", path |-> "/api/admin/messages/:id/read"],
    [method |-> "POST",  path |-> "/api/admin/research-areas"] }

\* What the session gives the request: req.isAuthenticated() and req.user.role.
SessionUsers ==
  { [authenticated |-> FALSE, role |-> ""],
    [authenticated |-> TRUE,  role |-> "user"],
    [authenticated |-> TRUE,  role |-> "admin"] }

\* A request to an admin route enters csrfProtection.  id is the :id of the
\* path, valid whether the body satisfies insertResearchAreaSchema.
ToAdminRoute(route, user, cookie, header) ==
  \E id \in 1..(NMessages + 1), valid \in BOOLEAN :
    /\ CsrfProtection(route.method, cookie, header)
    /\ routed' = [NoRoute EXCEPT !.route = route, !.user = user, !.id = id,
                                  !.valid = valid]

AdminRequest ==
  \E route \in AdminRoutes, user \in SessionUsers, cookie \in Carried, header \in Carried :
    ToAdminRoute(route, user, cookie, header)

\* Line 22: req.isAuthenticated() && req.user.role === "admin"
IsAdminAnyUser(user) == user.authenticated
IsAdmin(user) == user.authenticated /\ user.role = "admin"

\* Line 25: res.status(403).json({ error: "Forbidden" })
Forbidden ==
  [NoRes EXCEPT !.by = "isAdmin", !.req = res.req, !.status = 403,
                !.body = Some([error |-> "Forbidden"])]

\* The request csrfProtection has just passed on is one to the route.
Reaches(method, path) ==
  /\ res.by = "csrfProtection" /\ res.next
  /\ routed.route = [method |-> method, path |-> path]

\* storage.markMessageAsRead(id): update messages set read = true where id.
MarkMessageAsRead(id) ==
  [m \in DOMAIN messages |-> IF m = id THEN [messages[m] EXCEPT !.read = TRUE]
                                      ELSE messages[m]]

\* Lines 98-105: isAdmin, then the handler.
GetAdminMessages ==
  /\ Reaches("GET", "/api/admin/messages")
  /\ res' = IF IsAdmin(routed.user)
            THEN [NoRes EXCEPT !.by = "GET /api/admin/messages", !.req = res.req,
                               !.status = 200, !.body = Some(messages)]
            ELSE Forbidden
  /\ UNCHANGED <<now, serviceVars, limiterVars, csrfVars, routeVars>>

\* Lines 108-116: isAdmin, then the handler.
PatchMessageRead ==
  /\ Reaches("PATCH", "/api/admin/messages/:id/read")
  /\ IF IsAdmin(routed.user)
     THEN /\ messages' = MarkMessageAsRead(routed.id)
          /\ res' = [NoRes EXCEPT !.by = "PATCH /api/admin/messages/:id/read",
                                  !.req = res.req, !.status = 200,
                                  !.body = Some([success |-> TRUE])]
     ELSE /\ res' = Forbidden
          /\ UNCHANGED messages
  /\ UNCHANGED <<now, serviceVars, limiterVars, csrfVars, routed, researchAreas>>

\* Lines 119-133: isAdmin, then the handler; a body the schema rejects is
\* answered 400 and nothing is stored.
PostResearchArea ==
  /\ Reaches("POST", "/api/admin/research-areas")
  /\ IF ~IsAdmin(routed.user)
     THEN /\ res' = Forbidden
          /\ UNCHANGED researchAreas
     ELSE LET answer == [NoRes EXCEPT !.by = "POST /api/admin/research-areas",
                                      !.req = res.req]
          IN IF routed.valid
             THEN /\ researchAreas' = Append(researchAreas, Len(researchAreas) + 1)
                  /\ res' = [answer EXCEPT !.status = 201,
                                           !.body = Some([id |-> Len(researchAreas) + 1])]
             ELSE /\ res' = [answer EXCEPT !.status = 400,
                                           !.body = Some([error |-> "Validation error"])]
                  /\ UNCHANGED researchAreas
  /\ UNCHANGED <<now, serviceVars, limiterVars, csrfVars, routed, messages>>

NextAdmin == AdminRequest \/ GetAdminMessages \/ PatchMessageRead \/ PostResearchArea

SpecAdmin == Init /\ [][NextAdmin]_vars

(***************************************************************************)
(* POST /api/auth/forgot-password (part_003 lines 54-75).  authLimiter and *)
(* csrfProtection come first; neither reads the email (authLimiter's key   *)
(* is made of req.ip and req.body.username).  The handler parses the body, *)
(* awaits createPasswordResetToken(email), awaits sendPasswordResetEmail   *)
(* if there is a token, and answers.                                       *)
(***************************************************************************)
\* An email address that requestResetSchema rejects.
Malformed == 0

\* Lines 65-68, and for comparison an answer that tells a missing account.
ForgotAnswerTellsMissing(token) ==
  IF token = Null
  THEN [status |-> 404, body |-> Some([error |-> "No account with this email"])]
  ELSE [status |-> 200,
        body |-> Some([success |-> TRUE,
                       message |-> "If an account exists with this email, a reset link has been sent."])]
ForgotAnswer(token) ==
  [status |-> 200,
   body |-> Some([success |-> TRUE,
                  message |-> "If an account exists with this email, a reset link has been sent."])]

\* Lines 70-72: the body fails requestResetSchema; no service call is made.
ForgotInvalid ==
  /\ res' = [NoRes EXCEPT !.by = "POST /api/auth/forgot-password",
                          !.req = [NoReq EXCEPT !.method = "POST",
                                                !.body = Some([email |-> Malformed])],
                          !.status = 400,
                          !.body = Some([error |-> "Validation error"])]
  /\ last' = IdleCall
  /\ UNCHANGED <<now, users, pc, call, resetVars, twoFAVars, accountVars,
                 limiterVars, csrfVars, routeVars>>

\* Lines 58-68: createPasswordResetToken has returned token to the handler.
\* sendPasswordResetEmail (part_004 lines 86-101) is a stub that returns.
ForgotRespond ==
  /\ last.op = "createPasswordResetToken"
  /\ LET answer == ForgotAnswer(last.ret) IN
       res' = [NoRes EXCEPT !.by = "POST /api/auth/forgot-password",
                            !.req = [NoReq EXCEPT !.method = "POST",
                                                  !.body = Some([email |-> last.email])],
                            !.status = answer.status,
                            !.body = answer.body]
  /\ last' = IdleCall
  /\ UNCHANGED <<now, users, pc, call, resetVars, twoFAVars, accountVars,
                 limiterVars, csrfVars, routeVars>>

NextForgot ==
  \/ Tick
  \/ \E p \in Procs : CreateSelect(p) \/ CreateUpdate(p)
  \/ ForgotInvalid
  \/ ForgotRespond

SpecForgot == Init /\ [][NextForgot]_vars

(***************************************************************************)
(* Login.  POST /api/login is set up by setupAuth (server/auth.ts): it     *)
(* checks the password; for a user without 2FA it establishes the session, *)
(* for a user with 2FA enabled it marks the session as pending for the     *)
(* user's id.  POST /api/auth/2fa/verify (part_003 lines 189-218) is the   *)
(* second step.                                                            *)
(***************************************************************************)
\* comparePasswords(supplied, stored)
ComparePasswords(supplied, stored) == stored = HashPassword(supplied)

\* The login asks for a second factor.
Requires2FA(row) == row.twoFactorEnabled

Login(uid, pw) ==
  LET row == users[uid]
      answer == [NoRes EXCEPT !.by = "POST /api/login",
                              !.req = [NoReq EXCEPT !.method = "POST",
                                                    !.body = Some([username |-> row.username])]]
  IN
  /\ session.user = Null
  /\ IF ~ComparePasswords(pw, row.password)
     THEN /\ res' = [answer EXCEPT !.status = 401]
          /\ UNCHANGED session
     ELSE IF Requires2FA(row)
          THEN /\ session' = [user |-> Null, pending2FAUserId |-> Some(uid),
                              checked |-> Some(uid), verified |-> Null]
               /\ res' = [answer EXCEPT !.status = 200,
                                        !.body = Some([requires2FA |-> TRUE])]
          ELSE /\ session' = [user |-> Some(uid), pending2FAUserId |-> Null,
                              checked |-> Some(uid), verified |-> Null]
               /\ res' = [answer EXCEPT !.status = 200,
                                        !.body = Some([requires2FA |-> FALSE])]
  /\ last' = IdleCall
  /\ UNCHANGED <<now, users, pc, call, resetVars, twoFAVars, adminEnv, boot, elevated,
                 limiterVars, csrfVars, routeVars>>

LoginAttempt == \E uid \in UserIds, pw \in {0, 1} : Login(uid, pw)

\* POST /api/logout: the session ends.
Logout ==
  /\ session # NoSession
  /\ session' = NoSession
  /\ last' = IdleCall
  /\ res' = [NoRes EXCEPT !.by = "POST /api/logout", !.status = 200]
  /\ UNCHANGED <<now, users, pc, call, resetVars, twoFAVars, adminEnv, boot, elevated,
                 limiterVars, csrfVars, routeVars>>

\* Lines 193-198: no pending 2FA verification in the session.
VerifyNoPending ==
  /\ session.pending2FAUserId = Null
  /\ res' = [NoRes EXCEPT !.by = "POST /api/auth/2fa/verify", !.status = 400,
                          !.body = Some([error |-> "No pending 2FA verification"])]
  /\ last' = IdleCall
  /\ UNCHANGED <<now, users, pc, call, resetVars, twoFAVars, accountVars,
                 limiterVars, csrfVars, routeVars>>

\* Lines 200 and 213-215: with a pending marker, a body that fails
\* verify2FASchema is answered 400; verify2FACode is not called.
VerifyMalformed ==
  /\ session.pending2FAUserId # Null
  /\ ~Verify2FASchemaOk(Short)
  /\ res' = [NoRes EXCEPT !.by = "POST /api/auth/2fa/verify",
                          !.req = [NoReq EXCEPT !.method = "POST",
                                                !.body = Some([code |-> Short])],
                          !.status = 400,
                          !.body = Some([error |-> "Validation error"])]
  /\ last' = IdleCall
  /\ UNCHANGED <<now, users, pc, call, resetVars, twoFAVars, accountVars,
                 limiterVars, csrfVars, routeVars>>

\* Lines 193-202: the route calls verify2FACode(pendingUserId, code).
StartVerifyRoute(p) ==
  /\ Free(p)
  /\ session.pending2FAUserId # Null
  /\ \E code \in Codes(TRUE) :
       VerifySelect(p, Begin("POST /api/auth/2fa/verify",
                             Val(session.pending2FAUserId), code))
  /\ UNCHANGED <<now, users, resetVars, twoFAVars, webVars, accountVars>>

\* Line 204: !isValid
NotValidNever(isValid) == FALSE
NotValid(isValid) == ~isValid

\* Line 209: delete session.pending2FAUserId (verified is history: the user
\* whose code the route accepted).
ClearPendingKeepsMarker(s, uid) == [s EXCEPT !.verified = Some(uid)]
ClearPending(s, uid) == [s EXCEPT !.pending2FAUserId = Null, !.verified = Some(uid)]

\* Lines 202-211: verify2FACode has returned isValid to the route.
VerifyRespond ==
  /\ last.op = "POST /api/auth/2fa/verify"
  /\ LET answer == [NoRes EXCEPT !.by = "POST /api/auth/2fa/verify"] IN
       IF NotValid(last.ret)
       THEN /\ res' = [answer EXCEPT !.status = 400,
                                     !.body = Some([error |-> "Invalid verification code"])]
            /\ UNCHANGED session
       ELSE /\ session' = ClearPending(session, last.uid)
            /\ res' = [answer EXCEPT !.status = 200, !.body = Some([success |-> TRUE])]
  /\ last' = IdleCall
  /\ UNCHANGED <<now, users, pc, call, resetVars, twoFAVars, adminEnv, boot, elevated,
                 limiterVars, csrfVars, routeVars>>

\* A browser logs in and out while the users set up, enable, use and disable
\* two-factor authentication, one call at a time.
NextLogin ==
  \/ LoginAttempt
  \/ Logout
  \/ VerifyNoPending
  \/ VerifyMalformed
  \/ StartVerifyRoute("p1")
  \/ VerifyRespond
  \/ TwoFAStep("p1", FALSE) /\ nextBatch' <= MaxEnrols + 1

SpecLogin == Init /\ [][NextLogin]_vars

(***************************************************************************)
(* The error handler (server/index.ts lines 28-58), the last middleware:   *)
(* it is given the error that a route handler passed to next(error).       *)
(***************************************************************************)
\* The errors a handler passes on: new Error("User not found") of
\* generate2FASecret (part_005 line 25), a rejected database call, an error
\* without a message; with no status, or with the status a library set.
Errors ==
  {[message |-> m, status |-> st] :
     m \in {"User not found", "connect ECONNREFUSED 127.0.0.1:5432", ""},
     st \in {Null, Some(503)}}

\* Lines 29-57.  production: NODE_ENV is "production".
ErrorHandler(err, production) ==
  LET status == IF err.status # Null THEN Val(err.status) ELSE 500
      message == IF err.message # "" THEN err.message ELSE "Internal Server Error"
  IN
  /\ res' = [NoRes EXCEPT
               !.by = "errorHandler",
               !.status = status,
               !.body = Some([message |-> message]),
               !.logged = Some([statusCode |-> status,
                                stack |-> IF production THEN Null ELSE Some(err.message)])]
  /\ last' = IdleCall
  /\ UNCHANGED <<now, users, pc, call, resetVars, twoFAVars, accountVars,
                 limiterVars, csrfVars, routeVars>>

\* POST /api/auth/2fa/setup (part_003 lines 126-133): generate2FASecret has
\* thrown, and the route's catch calls next(error).
SetupFailed ==
  /\ last.op = "generate2FASecret" /\ UserById(last.uid) = Null
  /\ \E production \in BOOLEAN :
       ErrorHandler([message |-> "User not found", status |-> Null], production)

\* Any route whose handler catches an error and calls next(error).
RouteFailed ==
  \E err \in Errors, production \in BOOLEAN : ErrorHandler(err, production)

NextErrors == TwoFAStep("p1", TRUE) \/ SetupFailed \/ RouteFailed

SpecErrors == Init /\ [][NextErrors]_vars

(***************************************************************************)
(* The middleware stack of a mutating request to /api, in the order in     *)
(* which the application mounts it: apiLimiter (server/index.ts line 23),  *)
(* then, in registerRoutes (part_007), the routes of setupAuth (line 30),  *)
(* csrfProtection (line 36) and the router of the extended auth routes     *)
(* (line 39).  Express runs the stack in mount order and stops at the      *)
(* first layer that answers.  setupAuth is server/auth.ts, which is not    *)
(* among the sources: that it mounts POST /api/register, POST /api/login   *)
(* and POST /api/logout on the app is taken from the specification and its *)
(* tests.  apiLimiter keeps its records under key k1, authLimiter, a       *)
(* limiter instance with a Map of its own, under key k2.                   *)
(***************************************************************************)
RegisterRoute == [method |-> "POST", path |-> "/api/register"]
ForgotRoute == [method |-> "POST", path |-> "/api/auth/forgot-password"]

\* The routes setupAuth mounts.
SetupAuthRoutes ==
  { RegisterRoute,
    [method |-> "POST", path |-> "/api/login"],
    [method |-> "POST", path |-> "/api/logout"] }

\* The requests followed through the stack.
StackRoutes == {RegisterRoute, ForgotRoute}

\* The layer that answered last passed the request on, and the request has
\* come through the layers of via.
PassedOn(by, via) == res.by = by /\ res.next /\ routed.via = via

\* server/index.ts line 23: app.use("/api", apiLimiter).
ApiLimiter ==
  \E route \in StackRoutes :
    /\ RateLimiter("k1", FALSE)
    /\ routed' = [NoRoute EXCEPT !.route = route,
                                 !.via = IF res'.next THEN <<"apiLimiter">> ELSE <<>>]

\* part_007 line 30: the register route of setupAuth is next in the stack.
SetupAuthRegister ==
  /\ PassedOn("rateLimiter", <<"apiLimiter">>)
  /\ routed.route = RegisterRoute
  /\ Registration

\* part_007 line 36: app.use("/api", csrfProtection), for the requests that
\* no earlier route has answered.
StackCsrf ==
  /\ PassedOn("rateLimiter", <<"apiLimiter">>)
  /\ routed.route \notin SetupAuthRoutes
  /\ \E cookie \in Carried, header \in Carried :
       CsrfProtection(routed.route.method, cookie, header)
  /\ routed' = [routed EXCEPT
                  !.via = IF res'.next THEN Append(@, "csrfProtection") ELSE @]

\* part_003 line 54: authLimiter, the route's own limiter.
StackAuthLimiter ==
  /\ PassedOn("csrfProtection", <<"apiLimiter", "csrfProtection">>)
  /\ routed.route = ForgotRoute
  /\ RateLimiter("k2", FALSE)
  /\ routed' = [routed EXCEPT
                  !.via = IF res'.next THEN Append(@, "authLimiter") ELSE @]

\* part_003 lines 54-75: the handler of POST /api/auth/forgot-password.
StackForgot ==
  /\ PassedOn("rateLimiter", <<"apiLimiter", "csrfProtection", "authLimiter">>)
  /\ routed.route = ForgotRoute
  /\ last.op = "idle"
  /\ CreateSelect("p1") \/ ForgotInvalid

NextStack ==
  \/ Tick
  \/ ApiLimiter
  \/ SetupAuthRegister
  \/ StackCsrf
  \/ StackAuthLimiter
  \/ StackForgot
  \/ CreateUpdate("p1")
  \/ ForgotRespond

SpecStack == Init /\ [][NextStack]_vars

(***************************************************************************)
(* Password reset: the claims.                                             *)
(***************************************************************************)
StoredAt(u, t) == users[u].resetToken = Some(t)

\* C1: reset tokens are single-use.  Once a resetPassword(T, p) has returned
\* true, every validateResetToken(T) begun afterwards returns null and every
\* resetPassword(T, p2) begun afterwards returns false.
C1_SingleUse ==
  last.late =>
    /\ last.op = "validateResetToken" => last.ret = Null
    /\ last.op = "resetPassword" => last.ret = FALSE

\* A second resetPassword with a redeemed token has returned (false).
C1_Witness == last.late /\ last.op = "resetPassword" /\ last.ret = FALSE

\* C2: of the resetPassword calls made with one token, whatever the order of
\* their steps, at most one returns true.
C2_AtMostOneReset == \A t \in Tokens : okResets[t] <= 1

\* C3: expiry is time-based.  When validateResetToken(T) returns while T is
\* still stored, the stored expiry is T's issue time plus one hour, and the
\* result is null if the current time is later than that and the owning
\* user's id otherwise.
C3_ExpiryIsTimeBased ==
  [][\A p \in Procs :
       (pc[p] = "vCheck" /\ call[p].op = "validateResetToken" /\ pc'[p] = "idle") =>
         \A u \in UserIds :
           StoredAt(u, call[p].token) =>
             LET expiry == issued[call[p].token] + RESET_TOKEN_EXPIRY_HOURS * HourTicks IN
               /\ users[u].resetTokenExpiry = Some(expiry)
               /\ last'.ret = IF now > expiry THEN Null ELSE Some(u)]_vars

\* validateResetToken has returned null for a token that is still stored and
\* whose expiry has passed.
C3_Witness ==
  /\ last.op = "validateResetToken" /\ last.ret = Null
  /\ \E u \in UserIds :
       StoredAt(u, last.token) /\ now > Val(users[u].resetTokenExpiry)

\* C16: in every state, each user's resetToken and resetTokenExpiry are both
\* null or both set.
C16_TokenAndExpiryTogether ==
  \A u \in DOMAIN users :
    (users[u].resetToken = Null) <=> (users[u].resetTokenExpiry = Null)

\* A reset has cleared a token and its expiry, and a later request has stored
\* a new token with its expiry.
C16_Witness ==
  /\ \E t \in Tokens : okResets[t] > 0
  /\ \E u \in UserIds :
       users[u].resetToken # Null /\ users[u].resetTokenExpiry # Null

\* C18: validateResetToken, whatever it returns, and a resetPassword that
\* returns false leave every user record as it was: none of their steps (the
\* select by token, the check of the row) changes the users table, and a
\* resetPassword that returns false returns from the check, before its update.
C18_FailedResetChangesNothing ==
  [][\A p \in Procs :
       /\ (pc[p] = "idle" /\ pc'[p] = "vCheck") => users' = users
       /\ (pc[p] = "vCheck" /\ pc'[p] # "vCheck") => users' = users
       /\ (pc[p] # "idle" /\ pc'[p] = "idle" /\ last'.op = "validateResetToken") =>
            pc[p] = "vCheck"
       /\ (pc[p] # "idle" /\ pc'[p] = "idle" /\ last'.op = "resetPassword"
             /\ last'.ret = FALSE) =>
            pc[p] = "vCheck"]_vars

\* A resetPassword has returned false for a token that is stored (its expiry
\* has passed), and the token is stored still.
C18_Witness ==
  /\ last.op = "resetPassword" /\ last.ret = FALSE
  /\ \E u \in UserIds : StoredAt(u, last.token) /\ users[u].resetTokenExpiry # Null

\* The tokens validateResetToken would accept for user u if called now.
Redeemable(u) ==
  {t \in Tokens : StoredAt(u, t) /\ users[u].resetTokenExpiry # Null
                    /\ ~(now > Val(users[u].resetTokenExpiry))}

\* C23: at most one reset token per user is redeemable at any time.  The
\* update of createPasswordResetToken writes the new token and its expiry over
\* whatever the user's row held and touches no other row; the token it writes
\* was never stored before, so a token that was overwritten is stored by no
\* row again and a validateResetToken begun afterwards selects no row for it.
\* A call for an email that no user has returns null at once and changes no
\* row; only a call whose email a user has goes on to the update.
C23_OnePendingToken ==
  [][/\ \A u \in UserIds : Cardinality(Redeemable(u)') <= 1
     /\ \A p \in Procs :
          /\ (pc[p] = "cUpdate" /\ pc'[p] = "idle") =>
               LET u == Val(call[p].row).id
                   n == call[p].new
               IN /\ \A v \in UserIds : ~StoredAt(v, n)
                  /\ users'[u].resetToken = Some(n)
                  /\ users'[u].resetTokenExpiry = Some(call[p].exp)
                  /\ \A v \in UserIds \ {u} : users'[v] = users[v]
                  /\ \A t \in Tokens \ {n} :
                       StoredAt(u, t) => \A v \in UserIds : users'[v].resetToken # Some(t)
          /\ (pc[p] = "idle" /\ pc'[p] = "cUpdate") =>
               /\ users' = users
               /\ \E v \in UserIds :
                    users[v].email = call'[p].email /\ Val(call'[p].row).id = v
          /\ (pc[p] = "idle" /\ pc'[p] = "vCheck" /\ call'[p].row # Null) =>
               StoredAt(Val(call'[p].row).id, call'[p].token)
     /\ (pc' = pc /\ last'.op = "createPasswordResetToken") =>
          /\ last'.ret = Null
          /\ users' = users
          /\ \A v \in UserIds : users[v].email # last'.email]_vars

\* createPasswordResetToken has returned a second token for a user whose first
\* token had been stored and not redeemed: the row holds the second token only.
C23_Witness ==
  /\ last.op = "createPasswordResetToken" /\ last.ret # Null
  /\ \E u \in UserIds, t \in Tokens :
       /\ t # Val(last.ret) /\ t \in KnownTokens /\ okResets[t] = 0
       /\ users[u].email = last.email
       /\ StoredAt(u, Val(last.ret)) /\ Redeemable(u) = {Val(last.ret)}

\* C29: resetPassword(T, p) changes a user's row only if T is that user's
\* stored reset token at the moment of the write.  If a newer token has been
\* stored for the user since resetPassword validated T, the update changes
\* neither the password nor the newer token.
C29_WriteOnlyThroughStoredToken ==
  [][\A p \in Procs :
       (pc[p] = "rUpdate" /\ pc'[p] = "idle") =>
         LET u == Val(call[p].row).id IN
           users'[u] # users[u] => StoredAt(u, call[p].token)]_vars

(***************************************************************************)
(* Two-factor authentication: the claims.                                  *)
(***************************************************************************)
\* The user exists and has 2FA switched on.
Enrolled(u) == u \in UserIds /\ users[u].twoFactorEnabled

\* C4: backup codes are single-use in sequential use.  With one call at a
\* time, verify2FACode(u, c) for a backup code c returns true exactly when u
\* has 2FA enabled, c belongs to the batch issued at u's last enable and c has
\* not been accepted before; the acceptance is counted once.  So a code that
\* was accepted is refused from then on, and every other code of its batch
\* is still accepted, once.
C4_BackupSingleUse ==
  [][(last'.op = "verify2FACode" /\ last'.code.kind = "backup") =>
       LET u == last'.uid
           n == last'.code.n
       IN /\ last'.ret = (/\ Enrolled(u)
                          /\ BatchOf(n) = curBatch[u]
                          /\ accepts[n] = 0)
          /\ accepts'[n] = IF last'.ret THEN 1 ELSE accepts[n]]_vars

\* A code that was accepted has been refused at a second attempt, after
\* another code of its batch had been accepted as well.
C4_Witness ==
  /\ last.op = "verify2FACode" /\ last.code.kind = "backup" /\ last.ret = FALSE
  /\ Enrolled(last.uid)
  /\ BatchOf(last.code.n) = curBatch[last.uid]
  /\ accepts[last.code.n] = 1
  /\ \E m \in Serials :
       m # last.code.n /\ BatchOf(m) = BatchOf(last.code.n) /\ accepts[m] = 1

\* C5: whatever the interleaving of concurrent verify2FACode calls, no backup
\* code is accepted a second time.
C5_NeverAcceptedTwice == \A n \in Serials : accepts[n] <= 1

\* C6: in every reachable state, a user with twoFactorEnabled = true has a
\* non-null TOTP secret.
C6_EnabledImpliesSecret ==
  \A u \in UserIds : users[u].twoFactorEnabled => users[u].twoFactorSecret # Null

\* C7: generating a secret does not enable 2FA.  As long as no
\* verify2FAAndEnable call for a user has succeeded, the user's flag is off
\* and is2FAEnabled returns false, however many secrets were generated and
\* enable attempts failed; is2FAEnabled returns true only for a user for
\* whom a verify2FAAndEnable call has succeeded.
C7_EnabledOnlyByEnable ==
  /\ \A u \in UserIds : users[u].twoFactorEnabled => enables[u] > 0
  /\ last.op = "is2FAEnabled" =>
       last.ret = (last.uid \in UserIds /\ users[last.uid].twoFactorEnabled)

\* is2FAEnabled has returned false for a user who holds a generated secret
\* and for whom no enable has succeeded.
C7_Witness ==
  /\ last.op = "is2FAEnabled" /\ last.ret = FALSE
  /\ last.uid \in UserIds
  /\ users[last.uid].twoFactorSecret # Null
  /\ enables[last.uid] = 0

\* C24: verify2FACode fails closed.  A call, made at login or by the disable
\* route, for a user id that no row has, for a user without a stored secret
\* or for a user whose twoFactorEnabled is false (a user who holds a generated
\* secret and submits that secret's TOTP code included) returns false from
\* its first select: the users table and the count of accepted backup codes
\* are as before, and only a call for an enabled user with a secret goes on to
\* the backup codes or to disable2FA.
C24_VerifyFailsClosed ==
  [][/\ \A p \in Procs :
          (pc[p] = "idle" /\ pc'[p] \in {"bSelect", "dUpdate"}) =>
            LET u == call'[p].uid IN
              /\ u \in UserIds
              /\ users[u].twoFactorSecret # Null
              /\ users[u].twoFactorEnabled
     /\ (/\ pc' = pc
         /\ last'.op \in {"verify2FACode", "POST /api/auth/2fa/disable"}
         /\ \/ last'.uid \notin UserIds
            \/ users[last'.uid].twoFactorSecret = Null
            \/ ~users[last'.uid].twoFactorEnabled) =>
          /\ last'.ret = FALSE
          /\ users' = users
          /\ accepts' = accepts]_vars

\* verify2FACode has returned false for a user who holds a generated secret,
\* has not enabled two-factor authentication and submitted that secret's code.
C24_Witness ==
  /\ last.op = "verify2FACode" /\ last.ret = FALSE
  /\ last.uid \in UserIds
  /\ ~users[last.uid].twoFactorEnabled
  /\ users[last.uid].twoFactorSecret # Null
  /\ last.code = TotpOf(Val(users[last.uid].twoFactorSecret))

\* The code is valid for user u now: u has two-factor authentication enabled
\* and the code is the TOTP code of the stored secret or, in upper case,
\* hashes to one of the stored backup codes.
CodeValidFor(u, code) ==
  /\ u \in UserIds
  /\ users[u].twoFactorEnabled
  /\ users[u].twoFactorSecret # Null
  /\ \/ code = TotpOf(Val(users[u].twoFactorSecret))
     \/ /\ users[u].twoFactorBackupCodes # Null
        /\ \E i \in 1..Len(Val(users[u].twoFactorBackupCodes)) :
             LET entry == Val(users[u].twoFactorBackupCodes)[i] IN
               entry.hashed = Scrypt([code EXCEPT !.upper = TRUE], entry.salt)

\* C25: POST /api/auth/2fa/disable switches two-factor authentication off
\* only for a code that is valid when it is submitted.  The route goes on to
\* disable2FA only with a valid code; with any other code it answers 400 and
\* no step of the request has changed the users table; disable2FA clears the
\* flag, the secret and the backup codes of that user in one update, after
\* which the route answers 200; and no other step turns a user's flag off.
C25_DisableOnlyWithValidCode ==
  [][/\ \A p \in Procs :
          /\ (pc[p] # "dUpdate" /\ pc'[p] = "dUpdate") =>
               /\ call'[p].op = "POST /api/auth/2fa/disable"
               /\ CodeValidFor(call'[p].uid, call'[p].code)
          /\ (pc[p] = "dUpdate" /\ pc'[p] = "idle") =>
               /\ last'.op = "POST /api/auth/2fa/disable" /\ last'.status = 200
               /\ users' = [users EXCEPT ![call[p].uid] =
                               [@ EXCEPT !.twoFactorEnabled = FALSE,
                                         !.twoFactorSecret = Null,
                                         !.twoFactorBackupCodes = Null]]
          /\ (/\ pc[p] \in {"idle", "bSelect", "bScan"} /\ pc'[p] = "idle"
              /\ pc[p] = "idle" => pc' = pc
              /\ last'.op = "POST /api/auth/2fa/disable") =>
               /\ last'.status = 400
               /\ users' = users
               /\ ~CodeValidFor(last'.uid, last'.code)
          /\ (call'[p].op = "POST /api/auth/2fa/disable"
                /\ pc'[p] \in {"bSelect", "bScan"}) => users' = users
     /\ \A u \in UserIds :
          (users[u].twoFactorEnabled /\ ~users'[u].twoFactorEnabled) =>
            \E p \in Procs : pc[p] = "dUpdate" /\ call[p].uid = u]_vars

\* The disable route has answered 200 for a backup code: the user's flag,
\* secret and backup codes are cleared.
C25_Witness ==
  /\ last.op = "POST /api/auth/2fa/disable" /\ last.status = 200
  /\ last.code.kind = "backup"
  /\ ~users[last.uid].twoFactorEnabled
  /\ users[last.uid].twoFactorSecret = Null
  /\ users[last.uid].twoFactorBackupCodes = Null

\* The list without its i-th entry.
Without(list, i) == [j \in 1..(Len(list) - 1) |-> IF j < i THEN list[j] ELSE list[j + 1]]

\* C28: a user's stored backup codes change in three ways only.  The update
\* of a successful verify2FAAndEnable stores BACKUP_CODES_COUNT codes of a
\* batch never issued before, none of them accepted yet; the update of a
\* successful backup-code redemption stores the list that was stored less
\* exactly the entry the code matched; disable2FA stores null.  A
\* verify2FACode that accepts a TOTP code changes no row, and one that accepts
\* a backup code finds it in the list stored at that moment, so that nothing
\* is accepted from an empty list.
C28_BackupCodesFrame ==
  [][/\ \A u \in UserIds :
          LET old == users[u].twoFactorBackupCodes
              new == users'[u].twoFactorBackupCodes
          IN new # old =>
               \E p \in Procs :
                 /\ call[p].uid = u /\ pc'[p] # pc[p]
                 /\ \/ /\ pc[p] = "eUpdate"
                       /\ new # Null
                       /\ Len(Val(new)) = BACKUP_CODES_COUNT
                       /\ nextBatch' = nextBatch + 1
                       /\ \A i \in 1..Len(Val(new)) :
                            /\ BatchOf(Val(new)[i].salt) = nextBatch
                            /\ accepts[Val(new)[i].salt] = 0
                            /\ \A j \in 1..Len(Val(new)) :
                                 Val(new)[j] = Val(new)[i] => j = i
                    \/ /\ pc[p] = "bScan"
                       /\ old # Null /\ new # Null
                       /\ \E i \in 1..Len(Val(old)) :
                            /\ Val(old)[i].hashed =
                                 Scrypt([call[p].code EXCEPT !.upper = TRUE], Val(old)[i].salt)
                            /\ Val(new) = Without(Val(old), i)
                    \/ pc[p] = "dUpdate" /\ new = Null
     /\ \A n \in Serials :
          accepts'[n] # accepts[n] =>
            \E p \in Procs :
              LET stored == users[call[p].uid].twoFactorBackupCodes IN
                /\ pc[p] = "bScan" /\ call[p].code.n = n
                /\ stored # Null
                /\ \E i \in 1..Len(Val(stored)) :
                     /\ Val(stored)[i].salt = n
                     /\ users'[call[p].uid].twoFactorBackupCodes =
                          Some(Without(Val(stored), i))
     /\ (pc' = pc /\ last'.op = "verify2FACode" /\ last'.code.kind = "totp") =>
          users' = users]_vars

\* C17: a verify2FAAndEnable that fails, because the user does not exist, has
\* no secret, or the code is not the secret's TOTP code, returns
\* enabled = false and leaves the users table, and so twoFactorEnabled, the
\* secret and the backup codes, as it was; only a call for a user whose
\* secret the code verifies against goes on to the update.
C17_FailedEnableChangesNothing ==
  [][/\ (last'.op = "verify2FAAndEnable" /\ ~last'.ret.enabled) => users' = users
     /\ \A p \in Procs :
          (pc[p] = "idle" /\ pc'[p] = "eUpdate") =>
            LET c == call'[p] IN
              /\ c.uid \in UserIds
              /\ users[c.uid].twoFactorSecret # Null
              /\ c.code.kind = "totp"
              /\ c.code.n = Val(users[c.uid].twoFactorSecret)
     /\ (pc' = pc /\ last'.op = "verify2FAAndEnable") =>
            /\ last'.ret = [enabled |-> FALSE]
            /\ \/ last'.uid \notin UserIds
               \/ users[last'.uid].twoFactorSecret = Null
               \/ last'.code.kind # "totp"
               \/ last'.code.n # Val(users[last'.uid].twoFactorSecret)]_vars

\* A verify2FAAndEnable with a code that is not the secret's has failed for a
\* user who has 2FA enabled: flag, secret and backup codes are in place.
C17_Witness ==
  /\ last.op = "verify2FAAndEnable" /\ last.ret = [enabled |-> FALSE]
  /\ last.uid \in UserIds
  /\ users[last.uid].twoFactorEnabled
  /\ users[last.uid].twoFactorSecret # Null
  /\ users[last.uid].twoFactorBackupCodes # Null

\* C22: a user's two-factor state moves along Disabled -> SecretGenerated ->
\* Enabled -> Disabled only.  Whenever twoFactorEnabled is true the stored
\* secret is the one a successful verify2FAAndEnable confirmed: the step that
\* switches the flag on is the update of a verify2FAAndEnable whose code is
\* the TOTP code of the secret then stored, and no step replaces the secret
\* of a user who is enabled after it.
C22_EnabledSecretIsConfirmed ==
  [][\A u \in UserIds :
       users'[u].twoFactorEnabled =>
         /\ users[u].twoFactorEnabled =>
              users'[u].twoFactorSecret = users[u].twoFactorSecret
         /\ ~users[u].twoFactorEnabled =>
              \E p \in Procs :
                /\ pc[p] = "eUpdate" /\ pc'[p] = "idle" /\ call[p].uid = u
                /\ users'[u].twoFactorSecret # Null
                /\ call[p].code.kind = "totp"
                /\ call[p].code.n = Val(users'[u].twoFactorSecret)]_vars

(***************************************************************************)
(* Rate limiter: the claims.                                               *)
(***************************************************************************)
\* The step is a request that rateLimiter counts under key k.
CountedRequest(k) ==
  res'.by = "rateLimiter" /\ res'.req.key = k /\ ~res'.req.skip

\* C8: with max = N, and for each key by itself: of the non-skipped requests
\* of one window the first N are passed on, and the (N+1)-th and every
\* further one is answered with 429 and not passed on.  Requests for other
\* keys, and skipped requests, do not count.
C8_FirstNPass ==
  [][\A k \in Keys :
       /\ CountedRequest(k) =>
            IF win'[k].reqs <= LimMax
            THEN res'.next /\ res'.status = 0
            ELSE ~res'.next /\ res'.status = 429
       /\ ~CountedRequest(k) => win'[k] = win[k] /\ hits'[k] = hits[k]]_vars

\* A key's (N+1)-th request of a window has been answered with 429 while
\* the other key is still within its quota.
C8_Witness ==
  /\ res.by = "rateLimiter" /\ res.status = 429 /\ ~res.next
  /\ win[res.req.key].reqs = LimMax + 1
  /\ \E k \in Keys : k # res.req.key /\ win[k].reqs \in 1..LimMax

\* C9: a non-skipped request that comes at or after the expiry of its key's
\* record is passed on and replaces the record by count = 1 and expiry =
\* now + windowMs, however many requests the expired window rejected; and a
\* request is answered with 429 only before the end of the window that began
\* with the key's first counted request.
C9_WindowRenewal ==
  [][\A k \in Keys :
       CountedRequest(k) =>
         /\ (hits[k] # Null /\ Val(hits[k]).expiresAt <= now) =>
              /\ res'.next
              /\ hits'[k] = Some([count |-> 1, expiresAt |-> now + WindowTicks])
         /\ res'.status = 429 =>
              /\ win[k].start >= 0
              /\ now < win[k].start + WindowTicks]_vars

\* The first request after a window that rejected requests has been passed
\* on, and the key's record is a new one.
C9_Witness ==
  /\ res.by = "rateLimiter" /\ res.next /\ ~res.req.skip
  /\ win[res.req.key].prev > LimMax
  /\ win[res.req.key].reqs = 1
  /\ hits[res.req.key] = Some([count |-> 1, expiresAt |-> now + WindowTicks])

\* C30: the limiter is a fixed-window counter.  After every step each stored
\* record has a count from 1 to max and the expiry of its window: the time of
\* the window's first request plus windowMs.  A record changes only by a
\* request for its key that is not skipped: a request in the window adds one
\* to the count and leaves the expiry, a request with no record or at or after
\* the expiry stores count 1 with a new expiry; the records of other keys are
\* as before.  A request answered 429 changes no record.
C30_FixedWindow ==
  [][/\ \A k \in Keys :
          hits'[k] # Null =>
            /\ 1 <= Val(hits'[k]).count /\ Val(hits'[k]).count <= LimMax
            /\ Val(hits'[k]).expiresAt = win'[k].start + WindowTicks
     /\ \A k \in Keys :
          hits'[k] # hits[k] =>
            /\ res'.by = "rateLimiter" /\ res'.req.key = k /\ ~res'.req.skip
            /\ res'.next
            /\ \A j \in Keys \ {k} : hits'[j] = hits[j]
            /\ IF hits[k] # Null /\ now < Val(hits[k]).expiresAt
               THEN hits'[k] = Some([count |-> Val(hits[k]).count + 1,
                                     expiresAt |-> Val(hits[k]).expiresAt])
               ELSE hits'[k] = Some([count |-> 1, expiresAt |-> now + WindowTicks])
     /\ (res'.by = "rateLimiter" /\ res'.status = 429) => hits' = hits]_vars

\* A request has been answered 429 for a key whose record is at max, its
\* window still open, while the other key has a record of its own.
C30_Witness ==
  /\ res.by = "rateLimiter" /\ res.status = 429
  /\ hits[res.req.key] # Null
  /\ Val(hits[res.req.key]).count = LimMax
  /\ now < Val(hits[res.req.key]).expiresAt
  /\ \E j \in Keys \ {res.req.key} :
       hits[j] # Null /\ Val(hits[j]).expiresAt # Val(hits[res.req.key]).expiresAt

\* C19: every response to a non-skipped request that a limiter handles,
\* passed on or rejected, the first request of a window included, carries the
\* standard rate-limit headers: the limit, the remaining quota (max less the
\* record's count, and never below 0) and the reset time (the record's
\* expiry).
C19_HeadersOnEveryResponse ==
  [][\A k \in Keys :
       CountedRequest(k) =>
         /\ hits'[k] # Null
         /\ LET record == Val(hits'[k])
                remaining == IF LimMax - record.count < 0 THEN 0
                             ELSE LimMax - record.count
            IN {<<"RateLimit-Limit", LimMax>>,
                <<"RateLimit-Remaining", remaining>>,
                <<"RateLimit-Reset", record.expiresAt>>} \subseteq res'.headers]_vars

(***************************************************************************)
(* CSRF guard: the claims.                                                 *)
(***************************************************************************)
\* The header carries a token and the cookie sent carries the same.
Echoed(req) == req.header # Null /\ req.cookie # Null /\ req.header = req.cookie

\* C10, as stated: a request passes csrfProtection if and only if its method
\* is GET, HEAD or OPTIONS or its x-csrf-token header equals the csrf-token
\* cookie it sent; every other request is answered with 403, its handler
\* does not run, and nothing else happens: no cookie is set and no token is
\* generated.
C10_NothingBeyondRejection ==
  [][res'.by = "csrfProtection" =>
       LET pass == res'.req.method \in SafeMethods \/ Echoed(res'.req) IN
         /\ res'.next = pass
         /\ ~pass => /\ res'.status = 403
                     /\ handled' = handled
                     /\ res'.setCookie = Null
                     /\ nextCsrf' = nextCsrf
                     /\ jar' = jar]_vars

\* C10, amended: a request passes if and only if its method is GET, HEAD or
\* OPTIONS or its x-csrf-token header is non-empty and equals the csrf-token
\* cookie it sent; every other request is answered with 403 and its handler
\* does not run.  A request that sent no csrf-token cookie, or an empty one,
\* is issued a freshly generated one with the response, rejected or not;
\* nothing else happens.
C10_CsrfGuard ==
  [][res'.by = "csrfProtection" =>
       LET req == res'.req
           pass == req.method \in SafeMethods \/ (Echoed(req) /\ Val(req.header) # 0)
           none == req.cookie = Null \/ req.cookie = Some(0)
       IN /\ res'.next = pass
          /\ handled' = IF pass THEN handled + 1 ELSE handled
          /\ ~pass => res'.status = 403
          /\ res'.setCookie = IF none THEN Some(nextCsrf) ELSE Null
          /\ nextCsrf' = IF none THEN nextCsrf + 1 ELSE nextCsrf]_vars

\* A POST that sent no cookie has been rejected and issued a fresh cookie.
C10_Witness ==
  /\ res.by = "csrfProtection" /\ res.req.method = "POST"
  /\ res.req.cookie = Null /\ res.req.header # Null
  /\ res.status = 403 /\ ~res.next
  /\ res.setCookie # Null

\* C11: GET /api/csrf-token returns the current token: the csrfToken of the
\* body is the csrf-token cookie the client holds after the response, which
\* is the cookie the request sent or, if it sent none, the one the response
\* sets.
C11_BodyIsCurrentToken ==
  [][res'.by = "csrfTokenEndpoint" =>
       res'.csrfToken = Stored(res'.req.cookie, res'.setCookie)]_vars

ByAdmin(user) == user = [authenticated |-> TRUE, role |-> "admin"]

\* The step answers a request to an admin route, or hands it to the route.
AdminStep ==
  \/ routed' # routed
  \/ res'.by \in {"isAdmin"} \cup {r.method \o " " \o r.path : r \in AdminRoutes}

\* The step is the route's: isAdmin, and the handler if isAdmin calls next().
ReachedGuard == res.by = "csrfProtection" /\ res.next /\ routed' = routed

HandlerRan == res'.by \in {r.method \o " " \o r.path : r \in AdminRoutes}

C14_SameAnswer ==
  [][(res'.by = "POST /api/auth/forgot-password"
        /\ Val(res'.req.body).email # Malformed) =>
       /\ res'.status = 200
       /\ res'.body =
            Some([success |-> TRUE,
                  message |-> "If an account exists with this email, a reset link has been sent."])
       /\ res'.headers = {} /\ res'.setCookie = Null]_vars

\* A request for an email that no user has was answered 200 while a request
\* for a user's email had stored a token.
C14_Witness ==
  /\ res.by = "POST /api/auth/forgot-password" /\ res.status = 200
  /\ Val(res.req.body).email = NoSuchUser
  /\ \E u \in UserIds : users[u].resetToken # Null

(***************************************************************************)
(* Login: the claims.                                                      *)
(***************************************************************************)
\* req.isAuthenticated(): the session has a user.
FullyAuthenticated(s) == s.user # Null

\* The step is the login route's.
LoginAnswered == res' # res /\ res'.by = "POST /api/login"

VerifyAnswered == res' # res /\ res'.by = "POST /api/auth/2fa/verify"
ErrorOf(r) ==
  IF r.body # Null /\ "error" \in DOMAIN Val(r.body) THEN Val(r.body).error ELSE "none"

\* C26: POST /api/auth/2fa/verify.  A request that finds no pending marker in
\* the session is answered 400 "No pending 2FA verification" in the step that
\* reads the session: no verify2FACode call begins, and the users table and
\* the accepted backup codes are as before.  verify2FACode is called for the
\* route only with a marker, for the user the marker names.  When it has
\* returned, the marker is removed and the answer is 200 if it returned
\* true; the session is unchanged and the answer is 400 "Invalid
\* verification code" if it returned false.  A body that fails the schema is
\* answered 400 "Validation error" with the session unchanged and no call.
C26_VerifyNeedsPending ==
  [][/\ (VerifyAnswered /\ session.pending2FAUserId = Null
           /\ last.op # "POST /api/auth/2fa/verify") =>
          ErrorOf(res') = "No pending 2FA verification"
     /\ (VerifyAnswered /\ ErrorOf(res') = "No pending 2FA verification") =>
          /\ res'.status = 400
          /\ session.pending2FAUserId = Null
          /\ session' = session /\ users' = users /\ accepts' = accepts
          /\ pc' = pc /\ call' = call
     /\ \A p \in Procs :
          (call[p].op # "POST /api/auth/2fa/verify"
             /\ "POST /api/auth/2fa/verify" \in {call'[p].op, last'.op}
             /\ (pc'[p] = "idle" => pc' = pc)
             /\ pc[p] = "idle") =>
            LET c == IF pc'[p] = "idle" THEN last' ELSE call'[p] IN
              /\ session.pending2FAUserId = Some(c.uid)
              /\ session' = session
     /\ (VerifyAnswered /\ ErrorOf(res') = "Validation error") =>
          /\ res'.status = 400
          /\ session' = session /\ users' = users /\ accepts' = accepts
          /\ pc' = pc /\ call' = call
     /\ (VerifyAnswered /\ ErrorOf(res') = "Invalid verification code") =>
          /\ res'.status = 400
          /\ last.op = "POST /api/auth/2fa/verify" /\ last.ret = FALSE
          /\ session' = session
     /\ (VerifyAnswered /\ ErrorOf(res') = "none") =>
          /\ res'.status = 200
          /\ last.op = "POST /api/auth/2fa/verify" /\ last.ret = TRUE
          /\ session'.pending2FAUserId = Null
     /\ (session.pending2FAUserId # Null /\ session'.pending2FAUserId = Null
           /\ VerifyAnswered) =>
          (last.op = "POST /api/auth/2fa/verify" /\ last.ret = TRUE)]_vars

\* With the marker in the session, a request with an invalid code has been
\* answered 400 and the marker is in place still.
C26_Witness ==
  /\ res.by = "POST /api/auth/2fa/verify" /\ res.status = 400
  /\ ErrorOf(res) = "Invalid verification code"
  /\ session.pending2FAUserId # Null
  /\ users[Val(session.pending2FAUserId)].twoFactorEnabled

(***************************************************************************)
(* Error handler: the claims.                                              *)
(***************************************************************************)
\* C20: when a handler fails with an unanticipated error the client is
\* answered 500 with a generic body that does not depend on the error; the
\* error's message goes to the server's log only.
C20_GenericInternalError ==
  [][res'.by = "errorHandler" =>
       /\ res'.status = 500
       /\ res'.body = Some([message |-> "Internal Server Error"])]_vars

(***************************************************************************)
(* Admin bootstrap: the claims.                                            *)
(***************************************************************************)
\* The user the environment names exists with role admin.
AdminInPlace(rows) ==
  \E id \in DOMAIN rows :
    rows[id].username = Val(adminEnv) /\ rows[id].role = "admin"

\* C21: the admin bootstrap is idempotent.  When ensureAdminUserFromEnv has
\* run to its end with the variables set, a user with the username exists
\* with role admin: inserted if there was none, and otherwise promoted by an
\* update that changes the role and nothing else of the row (the password
\* digest stays).  A run that begins when that user is there with role admin
\* changes nothing.
C21_BootstrapIdempotent ==
  [][/\ (boot'.pc = "done" /\ adminEnv # Null) => AdminInPlace(users')
     /\ (boot.pc = "write" /\ boot'.pc # "write") =>
          /\ \A id \in DOMAIN users :
               \/ users'[id] = users[id]
               \/ /\ users[id].username = Val(adminEnv)
                  /\ users[id].role # "admin"
                  /\ users'[id] = [users[id] EXCEPT !.role = "admin"]
          /\ Len(users') > Len(users) =>
               /\ \A id \in DOMAIN users : users[id].username # Val(adminEnv)
               /\ Len(users') = Len(users) + 1
               /\ users'[Len(users')].username = Val(adminEnv)
     /\ (boot' # boot /\ adminEnv # Null /\ AdminInPlace(users)) => users' = users]_vars

\* The first run promoted a user whose password had been reset, the server
\* was started again, and the second run has ended.
C21_Witness ==
  /\ boot.pc = "done" /\ boot.runs = 1
  /\ adminEnv # Null
  /\ \E id \in elevated :
       id \in UserIds /\ users[id].role = "admin" /\ users[id].password # HashPassword(0)

(***************************************************************************)
(* The middleware stack: the claims.                                       *)
(***************************************************************************)
\* The step begins the route logic of a mutating /api request: the register
\* handler answers, or the forgot-password handler rejects the body or makes
\* its call of createPasswordResetToken.
RouteLogicBegins ==
  \/ res' # res /\ res'.by = "POST /api/register"
  \/ /\ res' # res /\ res'.by = "POST /api/auth/forgot-password"
     /\ last.op # "createPasswordResetToken"
  \/ /\ pc["p1"] = "idle"
     /\ \/ pc'["p1"] = "cUpdate"
        \/ pc' = pc /\ last'.op = "createPasswordResetToken" /\ last' # last

====
